---- MODULE Spec2Model ----
(***************************************************************************)
(* User Profile Audit System (whisperky/user_pro_audit).                   *)
(*                                                                         *)
(* The model covers the request handlers of app/main.py running against    *)
(* the PostgreSQL schema of app/core/database.py.  Every handler runs in   *)
(* one transaction opened by get_db_cursor; each SQL statement is one      *)
(* step, the transaction's writes stay private (tx) until COMMIT, and the  *)
(* schema's constraints (PRIMARY KEY, UNIQUE(email), the FOREIGN KEY of    *)
(* user_audit.user_id) are checked by the statement that would break them. *)
(* Isolation is READ COMMITTED, PostgreSQL's default: a statement sees the *)
(* committed tables plus the writes of its own transaction.                *)
(***************************************************************************)
EXTENDS Integers, Sequences, FiniteSets, TLC

\* ------------------------------------------------------------------ bounds
\* number of concurrent request workers (store connections)
NumWorkers == 2
\* highest value the users.id sequence hands out
MaxId == 2
\* highest number of audit rows written
MaxAudit == 3
\* highest number of audit rows written in the longer one-at-a-time runs
MaxAuditSeq == 4

Workers == 1..NumWorkers
Ids == 1..MaxId
Versions == 1..MaxAudit
Names == {"A", "B"}
Emails == {"a@x", "b@x"}
Subs == {"1"}
\* SQL NULL / Python None
NULL == "NULL"
NoRow == [name |-> NULL, email |-> NULL]
Mutating == {"create_user", "update_user", "delete_user", "restore_user_version"}

VARIABLES
    users,         \* table users: id -> [name, email, password_hash]
    user_audit,    \* table user_audit, rows in commit order
    users_id_seq,  \* the sequence behind users.id SERIAL (last value)
    pc,            \* pc[w]: the statement worker w executes next
    req,           \* req[w]: the request worker w serves
    loc,           \* loc[w]: the handler's local variables
    tx,            \* tx[w]: uncommitted writes of w's transaction
    resp,          \* resp[w]: the response sent to the caller
    delete_served, \* history: identities whose DELETE request ran its DELETE statement on the live row
    mutations,     \* history: mutations[id], the number of committed mutations of identity id
    conn           \* conn[w]: the state of the store connection of worker w's request

vars == <<users, user_audit, users_id_seq, pc, req, loc, tx, resp, delete_served, mutations, conn>>

NoReq == [op |-> "none", user_id |-> 0, version |-> 0, name |-> NULL, email |-> NULL, sub |-> NULL,
          password |-> NULL]
NoLoc == [result |-> 0, next_version |-> 0, user |-> NoRow, new_id |-> 0, rowcount |-> 0]
NoTx == [users |-> <<>>, del |-> {}, audit |-> <<>>]
NoResp == [status |-> 0, code |-> NULL, body |-> <<>>, fault |-> FALSE]

\* --------------------------------------------------------- opaque services
\* the secrets callers present: the one every signup uses, and another one
Passwords == {"secret", "wrong"}

\* get_password_hash: the stored credential hash of a secret; never "RESTORED"
get_password_hash(password) == IF password = "secret" THEN "HASH" ELSE "HASH2"

\* verify_password: given raw secret and stored hash, return match
verify_password(plain_password, hashed_password) ==
    hashed_password = get_password_hash(plain_password)

\* create_access_token(data={"sub": str(user["id"])}): the token embeds the subject
create_access_token(sub) == [access_token |-> sub, token_type |-> "bearer"]

\* ------------------------------------------------------- the store's views
\* the users table as worker w's transaction sees it
ViewUsers(w) ==
    [id \in ((DOMAIN users) \ tx[w].del) \cup DOMAIN tx[w].users |->
        IF id \in DOMAIN tx[w].users THEN tx[w].users[id] ELSE users[id]]

\* the user_audit table, mutated: the transaction's rows replace the committed ones
ViewAuditOwn(w) == tx[w].audit

\* the user_audit table as worker w's transaction sees it
ViewAudit(w) == user_audit \o tx[w].audit

\* the audit rows of one identity in a table
AuditOf(table, id) == {table[i] : i \in {j \in 1..Len(table) : table[j].user_id = id}}

MaxOf(S) == CHOOSE m \in S : \A x \in S : x <= m

\* SELECT version FROM user_audit WHERE user_id = id ORDER BY version DESC LIMIT 1
\* (0 stands for "no row")
latest_version(table, id) ==
    IF AuditOf(table, id) = {} THEN 0
    ELSE MaxOf({r.version : r \in AuditOf(table, id)})

\* next_version = result["version"] + 1, mutated: the increment is forgotten
next_version_stale(result) == result

\* next_version = result["version"] + 1
next_version(result) == result + 1

\* ------------------------------------------------------ row locks and waits
\* the rows of users that w's transaction has written and not yet committed
Written(w) == (DOMAIN tx[w].users) \cup tx[w].del

\* w holds FOR UPDATE on row id: it deletes the row or changes its key column email
HoldsForUpdate(w, id) ==
    \/ id \in tx[w].del
    \/ /\ id \in DOMAIN tx[w].users
       /\ id \in DOMAIN users
       /\ tx[w].users[id].email # users[id].email

\* w holds FOR KEY SHARE on row id: it inserted an audit row referencing it
HoldsKeyShare(w, id) ==
    /\ id \in DOMAIN users
    /\ \E i \in 1..Len(tx[w].audit) : tx[w].audit[i].user_id = id

\* an UPDATE of row id by w has to wait for another transaction's lock
UpdateWaits(w, id, email) ==
    \E v \in Workers \ {w} :
        \/ id \in Written(v)
        \/ /\ id \in DOMAIN users
           /\ users[id].email # email
           /\ HoldsKeyShare(v, id)

\* a DELETE of row id by w has to wait for another transaction's lock
DeleteWaits(w, id) ==
    \E v \in Workers \ {w} : id \in Written(v) \/ HoldsKeyShare(v, id)

\* the UNIQUE(email) check of w's write of row self has to wait: another open
\* transaction inserted that email or is changing the row that holds it
UniqueWaits(w, email, self) ==
    \E v \in Workers \ {w} :
        \/ \E id \in DOMAIN tx[v].users : id # self /\ tx[v].users[id].email = email
        \/ \E id \in Written(v) \cap DOMAIN users : id # self /\ users[id].email = email

\* UNIQUE(email), mutated: the constraint is missing from the schema
UniqueViolationOff(w, email, self) == FALSE

\* email VARCHAR(100) UNIQUE NOT NULL: another visible row holds the email
UniqueViolation(w, email, self) ==
    \E id \in DOMAIN ViewUsers(w) : id # self /\ ViewUsers(w)[id].email = email

\* the FOREIGN KEY check of an insert into user_audit has to wait
ForeignKeyWaits(w, id) ==
    \E v \in Workers \ {w} : HoldsForUpdate(v, id) \/ (id \in DOMAIN tx[v].users /\ id \notin DOMAIN users)

\* FOREIGN KEY (user_id) REFERENCES users(id), insert side: no such users row
ForeignKeyViolation(w, id) == id \notin DOMAIN ViewUsers(w)

\* FOREIGN KEY (user_id) REFERENCES users(id), delete side (NO ACTION):
\* audit rows still reference the users row
StillReferenced(w, id) == AuditOf(ViewAudit(w), id) # {}

\* CREATE INDEX idx_user_audit_user_id_version ON user_audit(user_id, version): a
\* plain index, not UNIQUE, so no insert is refused for its (user_id, version)
VersionViolation(w, id, version) == FALSE

\* ----------------------------------------------------------- error mapping
ErrorCode(op) ==
    CASE op = "create_user" -> "USER_CREATE_ERROR"
      [] op = "get_user" -> "USER_FETCH_ERROR"
      [] op = "update_user" -> "USER_UPDATE_ERROR"
      [] op = "delete_user" -> "USER_DELETE_ERROR"
      [] op = "get_user_audit" -> "AUDIT_FETCH_ERROR"
      [] op = "restore_user_version" -> "USER_RESTORE_ERROR"
      [] op = "login" -> "LOGIN_ERROR"
      [] OTHER -> "INTERNAL_SERVER_ERROR"

\* the status an exception class carries (core/exceptions.py)
StatusOf(exc) ==
    CASE exc = "ValidationException" -> 400
      [] exc = "AuthenticationException" -> 401
      [] exc = "NotFoundException" -> 404
      [] OTHER -> 500

CodeOf(exc) ==
    CASE exc = "ValidationException" -> "VALIDATION_ERROR"
      [] exc = "AuthenticationException" -> "AUTHENTICATION_ERROR"
      [] exc = "NotFoundException" -> "NOT_FOUND"
      [] OTHER -> "DATABASE_ERROR"

\* the except clauses of a handler, mutated: no handler has the clause
\* "except NotFoundException as e: raise e"
ExceptionResponseNoReraise(op, exc) ==
    IF exc = "PostgresError"
    THEN [status |-> 500, code |-> "DATABASE_ERROR"]
    ELSE [status |-> 500, code |-> ErrorCode(op)]

\* the except clauses of a handler, then app_exception_handler: what the caller
\* receives when exception exc leaves the handler's with-block
ExceptionResponse(op, exc) ==
    IF exc = "PostgresError"
    THEN [status |-> 500, code |-> "DATABASE_ERROR"]
    ELSE IF exc = "NotFoundException" /\ op \notin {"create_user", "login"}
    THEN [status |-> StatusOf(exc), code |-> CodeOf(exc)]
    ELSE [status |-> 500, code |-> ErrorCode(op)]

\* ------------------------------------------------------------- transaction
\* conn.rollback(), mutated: the audit rows written so far are kept
RollbackAuditKeeps(w) == ViewAudit(w)

\* conn.rollback(): the audit table after w's transaction is rolled back
RollbackAudit(w) == user_audit

\* conn.rollback(): the users table after w's transaction is rolled back
RollbackUsers(w) == users

\* get_db_connection, "finally: conn.close()", mutated: the close is skipped
ReleaseConnectionSkipped(w) == conn

\* get_db_connection, "finally: if conn is not None: conn.close()"
ReleaseConnection(w) == [conn EXCEPT ![w] = "closed"]

\* an exception leaves the with-block of get_db_cursor: rollback, the cursor and
\* the connection are closed, then the handler's except clauses turn it into the
\* response
Raise(w, exc, fault) ==
    /\ users' = RollbackUsers(w)
    /\ conn' = ReleaseConnection(w)
    /\ user_audit' = RollbackAudit(w)
    /\ tx' = [tx EXCEPT ![w] = NoTx]
    /\ resp' = [resp EXCEPT ![w] = [status |-> ExceptionResponse(req[w].op, exc).status,
                                    code |-> ExceptionResponse(req[w].op, exc).code,
                                    body |-> <<>>, fault |-> fault]]
    /\ pc' = [pc EXCEPT ![w] = "done"]

\* no response is waiting for delivery: a response leaves before any worker's next step
Quiet == \A v \in Workers : pc[v] # "done"

InFlight(w) == pc[w] \notin {"idle", "done"}

FirstStatement(op) ==
    CASE op = "create_user" -> "c_select"
      [] op = "update_user" -> "u_select"
      [] op = "delete_user" -> "d_select_version"
      [] op = "restore_user_version" -> "r_select_version"
      [] op = "get_user" -> "g_select"
      [] op = "get_user_audit" -> "a_select"
      [] op = "login" -> "l_select"

Requests ==
    [op : {"create_user"}, user_id : {0}, version : {0}, name : Names, email : Emails, sub : {NULL},
     password : {"secret"}]
    \cup [op : {"update_user"}, user_id : Ids, version : {0}, name : Names, email : Emails, sub : Subs,
          password : {NULL}]
    \cup [op : {"delete_user", "get_user", "get_user_audit"}, user_id : Ids, version : {0},
          name : {NULL}, email : {NULL}, sub : Subs, password : {NULL}]
    \cup [op : {"restore_user_version"}, user_id : Ids, version : Versions,
          name : {NULL}, email : {NULL}, sub : Subs, password : {NULL}]
    \cup [op : {"login"}, user_id : {0}, version : {0}, name : {NULL}, email : Emails, sub : {NULL},
          password : Passwords]

\* the counters stay within the bounds
WithinBounds(r, max) ==
    /\ r.op \in Mutating =>
          Len(user_audit) + Cardinality({v \in Workers : InFlight(v) /\ req[v].op \in Mutating}) < max
    /\ r.op = "create_user" =>
          users_id_seq + Cardinality({v \in Workers : pc[v] \in {"c_select", "c_insert"}}) < MaxId

\* a request arrives at worker w: get_db_cursor opens a connection and a transaction
Arrive(w, r, max) ==
    /\ pc[w] = "idle"
    /\ Quiet
    /\ WithinBounds(r, max)
    /\ req' = [req EXCEPT ![w] = r]
    /\ pc' = [pc EXCEPT ![w] = FirstStatement(r.op)]
    /\ conn' = [conn EXCEPT ![w] = "open"]
    /\ UNCHANGED <<users, user_audit, users_id_seq, loc, tx, resp, delete_served, mutations>>

Begin(w, r) == Arrive(w, r, MaxAudit)

\* a request arrives at worker w and psycopg2.connect fails: there is no
\* connection to close, and the handler answers with DatabaseException
ConnectFailure(w, r, max) ==
    /\ pc[w] = "idle"
    /\ Quiet
    /\ WithinBounds(r, max)
    /\ req' = [req EXCEPT ![w] = r]
    /\ resp' = [resp EXCEPT ![w] = [status |-> ExceptionResponse(r.op, "PostgresError").status,
                                    code |-> ExceptionResponse(r.op, "PostgresError").code,
                                    body |-> <<>>, fault |-> TRUE]]
    /\ pc' = [pc EXCEPT ![w] = "done"]
    /\ UNCHANGED <<users, user_audit, users_id_seq, loc, tx, delete_served, mutations, conn>>

ConnectFails(w, r) == ConnectFailure(w, r, MaxAudit)

\* the identity a mutating request acts on
Target(w) == IF req[w].op = "create_user" THEN loc[w].new_id ELSE req[w].user_id

\* conn.commit(): the transaction's writes become the committed tables; the
\* with-blocks end, closing the cursor and the connection
Commit(w) ==
    /\ pc[w] = "commit"
    /\ Quiet
    /\ conn' = ReleaseConnection(w)
    /\ users' = ViewUsers(w)
    /\ user_audit' = ViewAudit(w)
    /\ tx' = [tx EXCEPT ![w] = NoTx]
    /\ pc' = [pc EXCEPT ![w] = "done"]
    /\ mutations' = [mutations EXCEPT ![Target(w)] = @ + 1]
    /\ UNCHANGED <<users_id_seq, req, loc, resp, delete_served>>

\* an unexpected failure of the store (lost connection, deadlock victim, failing
\* commit) at any point of an open transaction
Abort(w) ==
    /\ InFlight(w)
    /\ Quiet
    /\ Raise(w, "PostgresError", TRUE)
    /\ UNCHANGED <<users_id_seq, req, loc, delete_served, mutations>>

\* the response is delivered; the worker is free for the next request
Return(w) ==
    /\ pc[w] = "done"
    /\ pc' = [pc EXCEPT ![w] = "idle"]
    /\ req' = [req EXCEPT ![w] = NoReq]
    /\ loc' = [loc EXCEPT ![w] = NoLoc]
    /\ resp' = [resp EXCEPT ![w] = NoResp]
    /\ UNCHANGED <<users, user_audit, users_id_seq, tx, delete_served, mutations, conn>>

\* ------------------------------------------------------------- create_user
\* SELECT id FROM users WHERE email = %s; raise ValidationException if found
create_user_select(w) ==
    /\ pc[w] = "c_select"
    /\ Quiet
    /\ IF \E id \in DOMAIN ViewUsers(w) : ViewUsers(w)[id].email = req[w].email
       THEN Raise(w, "ValidationException", FALSE)
       ELSE /\ pc' = [pc EXCEPT ![w] = "c_insert"]
            /\ UNCHANGED <<users, user_audit, tx, resp, conn>>
    /\ UNCHANGED <<users_id_seq, req, loc, delete_served, mutations>>

\* INSERT INTO users (name, email, password_hash) ... RETURNING id, ...
create_user_insert(w) ==
    LET id == users_id_seq + 1 IN
    /\ pc[w] = "c_insert"
    /\ Quiet
    /\ ~UniqueWaits(w, req[w].email, id)
    /\ users_id_seq' = id
    /\ IF id \in DOMAIN ViewUsers(w) \/ UniqueViolation(w, req[w].email, id)
       THEN /\ Raise(w, "PostgresError", FALSE)
            /\ UNCHANGED loc
       ELSE /\ tx' = [tx EXCEPT ![w].users =
                        (id :> [name |-> req[w].name, email |-> req[w].email,
                                password_hash |-> get_password_hash(req[w].password)]) @@ @]
            /\ loc' = [loc EXCEPT ![w].new_id = id]
            /\ pc' = [pc EXCEPT ![w] = "c_audit"]
            /\ UNCHANGED <<users, user_audit, resp, conn>>
    /\ UNCHANGED <<req, delete_served, mutations>>

\* the audit row of a signup, mutated: the new user's contact is recorded as the
\* acting subject
create_audit_row_actor(w) ==
    [user_id |-> loc[w].new_id, version |-> 1, name |-> req[w].name,
     email |-> req[w].email, action |-> "CREATE", changed_by |-> req[w].email]

\* VALUES (new_user["id"], 1, user.name, user.email, 'CREATE'): changed_by is not
\* among the columns, so it is NULL
create_audit_row(w) ==
    [user_id |-> loc[w].new_id, version |-> 1, name |-> req[w].name,
     email |-> req[w].email, action |-> "CREATE", changed_by |-> NULL]

\* INSERT INTO user_audit (user_id, version, name, email, action) VALUES (id, 1, ..., 'CREATE')
create_user_audit(w) ==
    /\ pc[w] = "c_audit"
    /\ Quiet
    /\ ~ForeignKeyWaits(w, loc[w].new_id)
    /\ IF ForeignKeyViolation(w, loc[w].new_id) \/ VersionViolation(w, loc[w].new_id, 1)
       THEN Raise(w, "PostgresError", FALSE)
       ELSE /\ tx' = [tx EXCEPT ![w].audit = Append(@, create_audit_row(w))]
            /\ resp' = [resp EXCEPT ![w] = [status |-> 200, code |-> "OK",
                                            body |-> <<>>, fault |-> FALSE]]
            /\ pc' = [pc EXCEPT ![w] = "commit"]
            /\ UNCHANGED <<users, user_audit, conn>>
    /\ UNCHANGED <<users_id_seq, req, loc, delete_served, mutations>>

\* ------------------------------------------------------------- update_user
\* the "if not result: raise NotFoundException" of update_user and delete_user,
\* mutated: the check is dropped
history_missing_off(result) == FALSE

\* "if not result": the SELECT of the latest version returned no row
history_missing(result) == result = 0

\* the row UPDATE users writes, mutated: the SET clause changes nothing
updated_row_unchanged(w, id, name, email) == ViewUsers(w)[id]

\* the row UPDATE users SET name, email ... WHERE id writes: the credential stays
updated_row(w, id, name, email) ==
    [name |-> name, email |-> email, password_hash |-> ViewUsers(w)[id].password_hash]

\* SELECT version FROM user_audit WHERE user_id = %s ORDER BY version DESC LIMIT 1
update_user_select(w) ==
    LET result == latest_version(ViewAudit(w), req[w].user_id) IN
    /\ pc[w] = "u_select"
    /\ Quiet
    /\ IF history_missing(result)
       THEN /\ Raise(w, "NotFoundException", FALSE)
            /\ UNCHANGED loc
       ELSE /\ loc' = [loc EXCEPT ![w].result = result, ![w].next_version = next_version(result)]
            /\ pc' = [pc EXCEPT ![w] = "u_update"]
            /\ UNCHANGED <<users, user_audit, tx, resp, conn>>
    /\ UNCHANGED <<users_id_seq, req, delete_served, mutations>>

\* UPDATE users SET name = %s, email = %s, updated_at = ... WHERE id = %s RETURNING ...
update_user_update(w) ==
    LET id == req[w].user_id IN
    /\ pc[w] = "u_update"
    /\ Quiet
    /\ IF id \in DOMAIN ViewUsers(w)
       THEN /\ ~UpdateWaits(w, id, req[w].email)
            /\ ~UniqueWaits(w, req[w].email, id)
            /\ IF UniqueViolation(w, req[w].email, id)
               THEN /\ Raise(w, "PostgresError", FALSE)
                    /\ UNCHANGED loc
               ELSE /\ tx' = [tx EXCEPT ![w].users =
                                (id :> updated_row(w, id, req[w].name, req[w].email)) @@ @]
                    /\ loc' = [loc EXCEPT ![w].rowcount = 1]
                    /\ pc' = [pc EXCEPT ![w] = "u_audit"]
                    /\ UNCHANGED <<users, user_audit, resp, conn>>
       ELSE /\ loc' = [loc EXCEPT ![w].rowcount = 0]
            /\ pc' = [pc EXCEPT ![w] = "u_audit"]
            /\ UNCHANGED <<users, user_audit, tx, resp, conn>>
    /\ UNCHANGED <<users_id_seq, req, delete_served, mutations>>

\* the user_id an authenticated mutation binds into its audit INSERT, mutated:
\* next_version is bound in its place
audit_user_id_version(w) == loc[w].next_version

\* the user_id an authenticated mutation binds into its audit INSERT: the path
\* parameter user_id
audit_user_id(w) == req[w].user_id

\* the audit row of an update, mutated: the action tag is 'CREATE'
update_audit_row_create(w) ==
    [user_id |-> req[w].user_id, version |-> loc[w].next_version, name |-> req[w].name,
     email |-> req[w].email, action |-> "CREATE", changed_by |-> req[w].sub]

\* VALUES (user_id, next_version, user_update.name, user_update.email, 'UPDATE', sub)
update_audit_row(w) ==
    [user_id |-> audit_user_id(w), version |-> loc[w].next_version, name |-> req[w].name,
     email |-> req[w].email, action |-> "UPDATE", changed_by |-> req[w].sub]

\* INSERT INTO user_audit (...) VALUES (user_id, next_version, name, email, 'UPDATE', sub);
\* return updated_user (a missing row fails the response model after the commit)
update_user_audit(w) ==
    LET id == audit_user_id(w) IN
    /\ pc[w] = "u_audit"
    /\ Quiet
    /\ ~ForeignKeyWaits(w, id)
    /\ IF ForeignKeyViolation(w, id) \/ VersionViolation(w, id, loc[w].next_version)
       THEN Raise(w, "PostgresError", FALSE)
       ELSE /\ tx' = [tx EXCEPT ![w].audit = Append(@, update_audit_row(w))]
            /\ resp' = [resp EXCEPT ![w] =
                          IF loc[w].rowcount = 0
                          THEN [status |-> 500, code |-> "INTERNAL_SERVER_ERROR",
                                body |-> <<>>, fault |-> FALSE]
                          ELSE [status |-> 200, code |-> "OK", body |-> <<>>, fault |-> FALSE]]
            /\ pc' = [pc EXCEPT ![w] = "commit"]
            /\ UNCHANGED <<users, user_audit, conn>>
    /\ UNCHANGED <<users_id_seq, req, loc, delete_served, mutations>>

\* ------------------------------------------------------------- delete_user
\* SELECT version FROM user_audit WHERE user_id = %s ORDER BY version DESC LIMIT 1
delete_user_select_version(w) ==
    LET result == latest_version(ViewAudit(w), req[w].user_id) IN
    /\ pc[w] = "d_select_version"
    /\ Quiet
    /\ IF history_missing(result)
       THEN /\ Raise(w, "NotFoundException", FALSE)
            /\ UNCHANGED loc
       ELSE /\ loc' = [loc EXCEPT ![w].result = result, ![w].next_version = next_version(result)]
            /\ pc' = [pc EXCEPT ![w] = "d_select_user"]
            /\ UNCHANGED <<users, user_audit, tx, resp, conn>>
    /\ UNCHANGED <<users_id_seq, req, delete_served, mutations>>

\* SELECT name, email FROM users WHERE id = %s; raise NotFoundException if absent
delete_user_select_user(w) ==
    LET id == req[w].user_id IN
    /\ pc[w] = "d_select_user"
    /\ Quiet
    /\ IF id \notin DOMAIN ViewUsers(w)
       THEN /\ Raise(w, "NotFoundException", FALSE)
            /\ UNCHANGED loc
       ELSE /\ loc' = [loc EXCEPT ![w].user = [name |-> ViewUsers(w)[id].name,
                                               email |-> ViewUsers(w)[id].email]]
            /\ pc' = [pc EXCEPT ![w] = "d_audit"]
            /\ UNCHANGED <<users, user_audit, tx, resp, conn>>
    /\ UNCHANGED <<users_id_seq, req, delete_served, mutations>>

\* INSERT INTO user_audit (...) VALUES (user_id, next_version, user.name, user.email, 'DELETE', sub)
delete_user_audit(w) ==
    LET id == audit_user_id(w) IN
    /\ pc[w] = "d_audit"
    /\ Quiet
    /\ ~ForeignKeyWaits(w, id)
    /\ IF ForeignKeyViolation(w, id) \/ VersionViolation(w, id, loc[w].next_version)
       THEN Raise(w, "PostgresError", FALSE)
       ELSE /\ tx' = [tx EXCEPT ![w].audit = Append(@,
                        [user_id |-> id, version |-> loc[w].next_version, name |-> loc[w].user.name,
                         email |-> loc[w].user.email, action |-> "DELETE", changed_by |-> req[w].sub])]
            /\ pc' = [pc EXCEPT ![w] = "d_delete"]
            /\ UNCHANGED <<users, user_audit, resp, conn>>
    /\ UNCHANGED <<users_id_seq, req, loc, delete_served, mutations>>

\* DELETE FROM users WHERE id = %s; the foreign key of user_audit (NO ACTION, not
\* deferrable) is checked when the statement ends
delete_user_delete(w) ==
    LET id == req[w].user_id IN
    /\ pc[w] = "d_delete"
    /\ Quiet
    /\ ~DeleteWaits(w, id)
    /\ IF id \in DOMAIN ViewUsers(w) /\ StillReferenced(w, id)
       THEN Raise(w, "PostgresError", FALSE)
       ELSE /\ tx' = [tx EXCEPT ![w].del = @ \cup ({id} \cap DOMAIN ViewUsers(w))]
            /\ resp' = [resp EXCEPT ![w] = [status |-> 200, code |-> "OK",
                                            body |-> <<>>, fault |-> FALSE]]
            /\ pc' = [pc EXCEPT ![w] = "commit"]
            /\ UNCHANGED <<users, user_audit, conn>>
    /\ delete_served' = delete_served \cup {id}
    /\ UNCHANGED <<users_id_seq, req, loc, mutations>>

\* ---------------------------------------------------- restore_user_version
\* the target query of restore, mutated: "AND version = %s" is missing
at_version_any(table, id, version) == AuditOf(table, id)

\* SELECT name, email FROM user_audit WHERE user_id = %s AND version = %s
at_version(table, id, version) == {r \in AuditOf(table, id) : r.version = version}

\* old_version = cursor.fetchone(): any one of the matching rows; NotFoundException
\* if there is none
restore_user_version_select_version(w) ==
    LET found == at_version(ViewAudit(w), req[w].user_id, req[w].version) IN
    /\ pc[w] = "r_select_version"
    /\ Quiet
    /\ IF found = {}
       THEN /\ Raise(w, "NotFoundException", FALSE)
            /\ UNCHANGED loc
       ELSE /\ \E old_version \in found :
                  loc' = [loc EXCEPT ![w].user = [name |-> old_version.name,
                                                  email |-> old_version.email]]
            /\ pc' = [pc EXCEPT ![w] = "r_select_latest"]
            /\ UNCHANGED <<users, user_audit, tx, resp, conn>>
    /\ UNCHANGED <<users_id_seq, req, delete_served, mutations>>

\* SELECT version FROM user_audit WHERE user_id = %s ORDER BY version DESC LIMIT 1
restore_user_version_select_latest(w) ==
    LET result == latest_version(ViewAudit(w), req[w].user_id) IN
    /\ pc[w] = "r_select_latest"
    /\ Quiet
    /\ loc' = [loc EXCEPT ![w].result = result, ![w].next_version = next_version(result)]
    /\ pc' = [pc EXCEPT ![w] = "r_update"]
    /\ UNCHANGED <<users, user_audit, users_id_seq, req, tx, resp, delete_served, mutations, conn>>

\* UPDATE users SET name = %s, email = %s, updated_at = ... WHERE id = %s RETURNING id;
\* if cursor.rowcount == 0: INSERT INTO users (id, name, email, password_hash)
\* VALUES (user_id, old.name, old.email, 'RESTORED')
restore_user_version_update(w) ==
    LET id == req[w].user_id IN
    /\ pc[w] = "r_update"
    /\ Quiet
    /\ ~UniqueWaits(w, loc[w].user.email, id)
    /\ IF id \in DOMAIN ViewUsers(w)
       THEN /\ ~UpdateWaits(w, id, loc[w].user.email)
            /\ IF UniqueViolation(w, loc[w].user.email, id)
               THEN /\ Raise(w, "PostgresError", FALSE)
                    /\ UNCHANGED loc
               ELSE /\ tx' = [tx EXCEPT ![w].users =
                                (id :> updated_row(w, id, loc[w].user.name, loc[w].user.email)) @@ @]
                    /\ loc' = [loc EXCEPT ![w].rowcount = 1]
                    /\ pc' = [pc EXCEPT ![w] = "r_audit"]
                    /\ UNCHANGED <<users, user_audit, resp, conn>>
       ELSE /\ \A v \in Workers \ {w} : id \notin Written(v)
            /\ loc' = [loc EXCEPT ![w].rowcount = 0]
            /\ IF UniqueViolation(w, loc[w].user.email, id)
               THEN Raise(w, "PostgresError", FALSE)
               ELSE /\ tx' = [tx EXCEPT ![w].users =
                                (id :> [name |-> loc[w].user.name, email |-> loc[w].user.email,
                                        password_hash |-> "RESTORED"]) @@ @,
                                         ![w].del = @ \ {id}]
                    /\ pc' = [pc EXCEPT ![w] = "r_audit"]
                    /\ UNCHANGED <<users, user_audit, resp, conn>>
    /\ UNCHANGED <<users_id_seq, req, delete_served, mutations>>

\* the audit row of a restore, mutated: the row reuses the restored version's number
restore_audit_row_reuse(w) ==
    [user_id |-> req[w].user_id, version |-> req[w].version,
     name |-> loc[w].user.name, email |-> loc[w].user.email,
     action |-> "RESTORE", changed_by |-> req[w].sub]

\* VALUES (user_id, next_version, old_version.name, old_version.email, 'RESTORE', sub)
restore_audit_row(w) ==
    [user_id |-> audit_user_id(w), version |-> loc[w].next_version,
     name |-> loc[w].user.name, email |-> loc[w].user.email,
     action |-> "RESTORE", changed_by |-> req[w].sub]

\* INSERT INTO user_audit (...) VALUES (..., 'RESTORE', sub)
restore_user_version_audit(w) ==
    LET id == audit_user_id(w) IN
    /\ pc[w] = "r_audit"
    /\ Quiet
    /\ ~ForeignKeyWaits(w, id)
    /\ IF ForeignKeyViolation(w, id) \/ VersionViolation(w, id, loc[w].next_version)
       THEN Raise(w, "PostgresError", FALSE)
       ELSE /\ tx' = [tx EXCEPT ![w].audit = Append(@, restore_audit_row(w))]
            /\ resp' = [resp EXCEPT ![w] = [status |-> 200, code |-> "OK",
                                            body |-> <<>>, fault |-> FALSE]]
            /\ pc' = [pc EXCEPT ![w] = "commit"]
            /\ UNCHANGED <<users, user_audit, conn>>
    /\ UNCHANGED <<users_id_seq, req, loc, delete_served, mutations>>

\* ---------------------------------------------------------------- get_user
\* the answer of GET /users/{id} on a users table
get_user_status(table, id) == IF id \in DOMAIN table THEN 200 ELSE 404

\* SELECT id, name, email, ... FROM users WHERE id = %s; NotFoundException if absent;
\* the transaction wrote nothing, so its commit is part of the step
get_user(w) ==
    LET id == req[w].user_id IN
    /\ pc[w] = "g_select"
    /\ Quiet
    /\ IF get_user_status(ViewUsers(w), id) = 404
       THEN Raise(w, "NotFoundException", FALSE)
       ELSE /\ resp' = [resp EXCEPT ![w] =
                          [status |-> 200, code |-> "OK", fault |-> FALSE,
                           body |-> <<[id |-> id, name |-> ViewUsers(w)[id].name,
                                       email |-> ViewUsers(w)[id].email]>>]]
            /\ pc' = [pc EXCEPT ![w] = "done"]
            /\ conn' = ReleaseConnection(w)
            /\ UNCHANGED <<users, user_audit, tx>>
    /\ UNCHANGED <<users_id_seq, req, loc, delete_served, mutations>>

\* ---------------------------------------------------------- get_user_audit
\* the positions of the audit rows of one identity
PositionsOf(table, id) == {j \in 1..Len(table) : table[j].user_id = id}

\* the columns the history query selects
audit_entry(r) ==
    [version |-> r.version, name |-> r.name, email |-> r.email,
     action |-> r.action, changed_by |-> r.changed_by]

\* SELECT ... FROM user_audit WHERE user_id = %s ORDER BY version DESC: every
\* order of the rows the clause admits (rows of equal version come in any order)
OrderByVersionDesc(table, id) ==
    LET P == PositionsOf(table, id)
        n == Cardinality(P)
    IN  {[k \in 1..n |-> audit_entry(table[f[k]])] :
            f \in {g \in [1..n -> P] :
                     /\ \A a, b \in 1..n : a # b => g[a] # g[b]
                     /\ \A a, b \in 1..n : a < b => table[g[a]].version >= table[g[b]].version}}

\* audit_entries = cursor.fetchall(); NotFoundException if empty;
\* the transaction wrote nothing, so its commit is part of the step
get_user_audit(w) ==
    LET id == req[w].user_id IN
    /\ pc[w] = "a_select"
    /\ Quiet
    /\ \E audit_entries \in OrderByVersionDesc(ViewAudit(w), id) :
          IF audit_entries = <<>>
          THEN Raise(w, "NotFoundException", FALSE)
          ELSE /\ resp' = [resp EXCEPT ![w] = [status |-> 200, code |-> "OK",
                                               body |-> audit_entries, fault |-> FALSE]]
               /\ pc' = [pc EXCEPT ![w] = "done"]
               /\ conn' = ReleaseConnection(w)
               /\ UNCHANGED <<users, user_audit, tx>>
    /\ UNCHANGED <<users_id_seq, req, loc, delete_served, mutations>>

\* ------------------------------------------------------------------- login
\* SELECT id, password_hash FROM users WHERE email = %s; AuthenticationException
\* unless a row is found and the secret verifies; else the token for the row's id;
\* the transaction wrote nothing, so its commit is part of the step
login(w) ==
    LET found == {id \in DOMAIN ViewUsers(w) : ViewUsers(w)[id].email = req[w].email} IN
    /\ pc[w] = "l_select"
    /\ Quiet
    /\ IF found = {}
       THEN Raise(w, "AuthenticationException", FALSE)
       ELSE \E user \in found :
              IF ~verify_password(req[w].password, ViewUsers(w)[user].password_hash)
              THEN Raise(w, "AuthenticationException", FALSE)
              ELSE /\ resp' = [resp EXCEPT ![w] =
                                 [status |-> 200, code |-> "OK", fault |-> FALSE,
                                  body |-> <<create_access_token(user)>>]]
                   /\ pc' = [pc EXCEPT ![w] = "done"]
                   /\ conn' = ReleaseConnection(w)
                   /\ UNCHANGED <<users, user_audit, tx>>
    /\ UNCHANGED <<users_id_seq, req, loc, delete_served, mutations>>

Init ==
    /\ users = <<>>
    /\ user_audit = <<>>
    /\ users_id_seq = 0
    /\ pc = [w \in Workers |-> "idle"]
    /\ req = [w \in Workers |-> NoReq]
    /\ loc = [w \in Workers |-> NoLoc]
    /\ tx = [w \in Workers |-> NoTx]
    /\ resp = [w \in Workers |-> NoResp]
    /\ delete_served = {}
    /\ mutations = [id \in Ids |-> 0]
    /\ conn = [w \in Workers |-> "closed"]

Next ==
    \E w \in Workers :
        \/ \E r \in Requests : Begin(w, r)
        \/ \E r \in Requests : ConnectFails(w, r)
        \/ create_user_select(w)
        \/ create_user_insert(w)
        \/ create_user_audit(w)
        \/ update_user_select(w)
        \/ update_user_update(w)
        \/ update_user_audit(w)
        \/ delete_user_select_version(w)
        \/ delete_user_select_user(w)
        \/ delete_user_audit(w)
        \/ delete_user_delete(w)
        \/ restore_user_version_select_version(w)
        \/ restore_user_version_select_latest(w)
        \/ restore_user_version_update(w)
        \/ restore_user_version_audit(w)
        \/ get_user(w)
        \/ get_user_audit(w)
        \/ login(w)
        \/ Commit(w)
        \/ Abort(w)
        \/ Return(w)

Spec == Init /\ [][Next]_vars

\* requests served one at a time: a request arrives only when no other is open
\* and the previous response has been delivered; the single event loop serves
\* it on the first connection slot
BeginSeq(w, r) ==
    /\ w = 1
    /\ \A v \in Workers : pc[v] = "idle"
    /\ Begin(w, r)

ConnectFailsSeq(w, r) ==
    /\ w = 1
    /\ \A v \in Workers : pc[v] = "idle"
    /\ ConnectFails(w, r)

NextSeq ==
    \E w \in Workers :
        \/ \E r \in Requests : BeginSeq(w, r)
        \/ \E r \in Requests : ConnectFailsSeq(w, r)
        \/ create_user_select(w)
        \/ create_user_insert(w)
        \/ create_user_audit(w)
        \/ update_user_select(w)
        \/ update_user_update(w)
        \/ update_user_audit(w)
        \/ delete_user_select_version(w)
        \/ delete_user_select_user(w)
        \/ delete_user_audit(w)
        \/ delete_user_delete(w)
        \/ restore_user_version_select_version(w)
        \/ restore_user_version_select_latest(w)
        \/ restore_user_version_update(w)
        \/ restore_user_version_audit(w)
        \/ get_user(w)
        \/ get_user_audit(w)
        \/ login(w)
        \/ Commit(w)
        \/ Abort(w)
        \/ Return(w)

SeqSpec == Init /\ [][NextSeq]_vars

\* requests served one at a time, in runs long enough for a restore to meet a
\* contact that another entity took over after the restored version was written
BeginSeqLong(w, r) ==
    /\ w = 1
    /\ \A v \in Workers : pc[v] = "idle"
    /\ Arrive(w, r, MaxAuditSeq)

ConnectFailsSeqLong(w, r) ==
    /\ w = 1
    /\ \A v \in Workers : pc[v] = "idle"
    /\ ConnectFailure(w, r, MaxAuditSeq)

NextSeqLong ==
    \E w \in Workers :
        \/ \E r \in Requests : BeginSeqLong(w, r)
        \/ \E r \in Requests : ConnectFailsSeqLong(w, r)
        \/ create_user_select(w)
        \/ create_user_insert(w)
        \/ create_user_audit(w)
        \/ update_user_select(w)
        \/ update_user_update(w)
        \/ update_user_audit(w)
        \/ delete_user_select_version(w)
        \/ delete_user_select_user(w)
        \/ delete_user_audit(w)
        \/ delete_user_delete(w)
        \/ restore_user_version_select_version(w)
        \/ restore_user_version_select_latest(w)
        \/ restore_user_version_update(w)
        \/ restore_user_version_audit(w)
        \/ get_user(w)
        \/ get_user_audit(w)
        \/ login(w)
        \/ Commit(w)
        \/ Abort(w)
        \/ Return(w)

SeqSpecLong == Init /\ [][NextSeqLong]_vars

\* ================================================================== claims
\* the version numbers in the audit rows of one identity
VersionsOf(id) == {r.version : r \in AuditOf(user_audit, id)}

\* C1: with requests served one at a time, the audit versions of every identity
\* that has history are exactly 1..N, N the number of committed mutations of
\* that identity, each version in exactly one row
C1_GaplessVersions ==
    \A id \in Ids :
        PositionsOf(user_audit, id) # {} =>
            /\ VersionsOf(id) = 1..mutations[id]
            /\ Cardinality(PositionsOf(user_audit, id)) = mutations[id]

\* an identity went through create, update and restore, one after the other
C1_Witness ==
    \E id \in Ids :
        /\ mutations[id] = 3
        /\ {r.action : r \in AuditOf(user_audit, id)} = {"CREATE", "UPDATE", "RESTORE"}

\* C2: the audit log never holds two rows with the same identity and version
C2_UniqueVersion ==
    \A i, j \in 1..Len(user_audit) :
        (i # j /\ user_audit[i].user_id = user_audit[j].user_id)
            => user_audit[i].version # user_audit[j].version

\* worker w has just answered a request of kind op, with no failure of the store
Done(w, op) == pc[w] = "done" /\ req[w].op = op /\ ~resp[w].fault

\* the step is the successful commit of worker w's transaction
Committed(w) == pc[w] = "commit" /\ pc'[w] = "done" /\ resp'[w].status = 200

C4_RestoreAfterDelete ==
    \A w \in Workers :
        (/\ Done(w, "restore_user_version")
         /\ req[w].user_id \in delete_served
         /\ \E r \in AuditOf(user_audit, req[w].user_id) :
               r.version = req[w].version)
        => /\ resp[w].status = 200
           /\ req[w].user_id \in DOMAIN users
           /\ users[req[w].user_id].password_hash = "RESTORED"
           /\ \E r \in AuditOf(user_audit, req[w].user_id) :
                 /\ r.version = req[w].version
                 /\ users[req[w].user_id].name = r.name
                 /\ users[req[w].user_id].email = r.email

\* the newest audit row of an identity has action a
NewestIs(id, a) ==
    \E r \in AuditOf(user_audit, id) :
        r.version = latest_version(user_audit, id) /\ r.action = a

\* C5: a DELETE request that found the entity live is answered 200; afterwards
\* GET /users/{id} answers 404 and the history of the identity is still there,
\* with a DELETE row as its newest entry
C5_DeleteThenFetch ==
    \A w \in Workers :
        (Done(w, "delete_user") /\ loc[w].user # NoRow)
        => /\ resp[w].status = 200
           /\ get_user_status(users, req[w].user_id) = 404
           /\ NewestIs(req[w].user_id, "DELETE")

\* C6: a CREATE with a contact that a live entity holds is answered 400
\* (Conflict, code VALIDATION_ERROR)
C6_DuplicateCreate400 ==
    \A w \in Workers :
        (/\ Done(w, "create_user")
         /\ \E id \in DOMAIN users : id # loc[w].new_id /\ users[id].email = req[w].email)
        => resp[w].status = 400 /\ resp[w].code = "VALIDATION_ERROR"

\* C7: the tables change only in the commit step of a request that succeeds, and
\* that step commits the request's entity write together with its one audit row;
\* a request that fails or is aborted leaves both tables as they are
C7_Atomic ==
    [][/\ (users' # users \/ user_audit' # user_audit) => \E w \in Workers : Committed(w)
       /\ \A w \in Workers :
             Committed(w) =>
                 /\ users' = ViewUsers(w)
                 /\ user_audit' = ViewAudit(w)
                 /\ Len(tx[w].audit) = 1
                 /\ Written(w) # {}]_vars

\* a DELETE request failed after it had written its audit row: no trace is left
C7_Witness ==
    \E w \in Workers :
        /\ Done(w, "delete_user")
        /\ resp[w].status = 500
        /\ loc[w].user # NoRow
        /\ tx[w] = NoTx
        /\ \A i \in 1..Len(user_audit) : user_audit[i].action # "DELETE"

\* C8: no two live entities hold the same contact; and a CREATE is refused only
\* when a live entity holds its contact (contacts that occur only in audit rows
\* do not count)
C8_UniqueLiveContact ==
    /\ \A i, j \in DOMAIN users : i # j => users[i].email # users[j].email
    /\ \A w \in Workers :
          (Done(w, "create_user") /\ resp[w].status # 200)
          => \E id \in DOMAIN users : users[id].email = req[w].email

\* a CREATE succeeded with a contact that another identity's audit rows carry
\* and that no other live entity holds
C8_Witness ==
    \E w \in Workers :
        /\ Done(w, "create_user")
        /\ resp[w].status = 200
        /\ loc[w].new_id \in DOMAIN users
        /\ \E i \in 1..Len(user_audit) :
              /\ user_audit[i].user_id # loc[w].new_id
              /\ user_audit[i].email = req[w].email

\* C9: an UPDATE of an identity that is not live is answered NotFound and leaves
\* no audit row; UPDATE rows exist only for identities of the Entity Store
C9_UpdateNotFound ==
    /\ \A w \in Workers :
          (Done(w, "update_user") /\ req[w].user_id \notin DOMAIN users)
          => /\ resp[w].status = 404
             /\ resp[w].code = "NOT_FOUND"
             /\ AuditOf(user_audit, req[w].user_id) = {}
    /\ \A i \in 1..Len(user_audit) :
          user_audit[i].action = "UPDATE" => user_audit[i].user_id \in DOMAIN users

\* an UPDATE of an identity that was never created has been answered
C9_Witness ==
    \E w \in Workers :
        /\ Done(w, "update_user")
        /\ req[w].user_id \notin DOMAIN users
        /\ resp[w].status = 404

\* C10: the history query answers NotFound exactly when the identity has no
\* audit row, and otherwise returns all its rows, versions strictly descending
C10_HistoryStrictlyDescending ==
    \A w \in Workers :
        Done(w, "get_user_audit") =>
            LET id == req[w].user_id
                body == resp[w].body
            IN  /\ resp[w].status = 404 <=> AuditOf(user_audit, id) = {}
                /\ resp[w].status = 200 =>
                      /\ Len(body) = Cardinality(PositionsOf(user_audit, id))
                      /\ {body[k] : k \in 1..Len(body)} =
                            {audit_entry(r) : r \in AuditOf(user_audit, id)}
                      /\ \A k \in 1..(Len(body) - 1) : body[k].version > body[k + 1].version

\* C11: the audit log is append-only: every step of every request (reads, failed
\* and successful mutations, rollbacks) leaves each committed audit row in its
\* place with its contents; the log only grows at its end
C11_AppendOnly ==
    [][\A i \in 1..Len(user_audit) :
          /\ i <= Len(user_audit')
          /\ user_audit'[i] = user_audit[i]]_vars

\* a restore committed a third row for an identity on which a DELETE request had
\* run its statements before
C11_Witness ==
    \E w \in Workers :
        /\ Done(w, "restore_user_version")
        /\ resp[w].status = 200
        /\ req[w].user_id \in delete_served
        /\ Cardinality(PositionsOf(user_audit, req[w].user_id)) = 3

\* C12: of two concurrent CREATE requests with the same contact one succeeds; the
\* other, whose own check saw no such contact and whose INSERT is then refused by
\* the uniqueness constraint, is answered Conflict (400, VALIDATION_ERROR), and
\* one live entity holds the contact, with one CREATE audit row
C12_ConcurrentCreateConflict ==
    [][\A w \in Workers :
          (pc[w] = "c_insert" /\ pc'[w] = "done" /\ ~resp'[w].fault) =>
              LET holders == {id \in DOMAIN users' : users'[id].email = req[w].email} IN
              /\ resp'[w].status = 400
              /\ resp'[w].code = "VALIDATION_ERROR"
              /\ Cardinality(holders) = 1
              /\ \A id \in holders :
                    Cardinality({i \in PositionsOf(user_audit', id) :
                                    user_audit'[i].action = "CREATE"}) = 1]_vars

\* C13: a login with an unknown contact or a wrong secret is answered
\* AuthenticationFailure: status 401, code AUTHENTICATION_ERROR
C13_LoginFailure401 ==
    \A w \in Workers :
        (/\ Done(w, "login")
         /\ ~\E id \in DOMAIN users :
                /\ users[id].email = req[w].email
                /\ verify_password(req[w].password, users[id].password_hash))
        => /\ resp[w].status = 401
           /\ resp[w].code = "AUTHENTICATION_ERROR"

\* C14: no request ends with its store connection open: whenever a worker has
\* its response ready or is idle again, whether the handler returned, raised a
\* business error or failed unexpectedly (a failing commit included), the
\* connection it acquired is closed
C14_ConnectionReleased ==
    \A w \in Workers : pc[w] \in {"idle", "done"} => conn[w] = "closed"

\* an UPDATE request failed unexpectedly after its UPDATE statement had run, and
\* its connection is closed
C14_Witness ==
    \E w \in Workers :
        /\ pc[w] = "done"
        /\ req[w].op = "update_user"
        /\ resp[w].fault
        /\ loc[w].rowcount = 1
        /\ conn[w] = "closed"

\* C15: a DELETE request that found the entity live and ran to its end has
\* removed the entity row and appended exactly one audit row: version latest+1,
\* action DELETE, the acting subject, and the name and contact read before the
\* delete
C15_DeleteAppendsSnapshot ==
    \A w \in Workers :
        (Done(w, "delete_user") /\ loc[w].user # NoRow) =>
            LET id == req[w].user_id
                appended == {i \in PositionsOf(user_audit, id) :
                                user_audit[i].version = loc[w].result + 1}
            IN  /\ id \notin DOMAIN users
                /\ Cardinality(appended) = 1
                /\ \A i \in appended :
                      /\ user_audit[i].action = "DELETE"
                      /\ user_audit[i].changed_by = req[w].sub
                      /\ user_audit[i].name = loc[w].user.name
                      /\ user_audit[i].email = loc[w].user.email

\* C16: a DELETE request for an identity that is not live (it has no history, or
\* it has history but no row in the Entity Store) is answered NotFound, and the
\* step that answers it leaves the Entity Store and the Audit Log as they were,
\* with nothing pending
C16_DeleteNotFound ==
    [][\A w \in Workers :
          (/\ req[w].op = "delete_user"
           /\ pc[w] # "done" /\ pc'[w] = "done" /\ ~resp'[w].fault
           /\ req[w].user_id \notin DOMAIN users)
          => /\ resp'[w].status = 404
             /\ resp'[w].code = "NOT_FOUND"
             /\ users' = users
             /\ user_audit' = user_audit
             /\ tx[w] = NoTx /\ tx'[w] = NoTx]_vars

\* a DELETE of an identity without history was answered NotFound while another
\* identity is live with its history
C16_Witness ==
    \E w \in Workers :
        /\ Done(w, "delete_user")
        /\ resp[w].status = 404
        /\ req[w].user_id \notin DOMAIN users
        /\ AuditOf(user_audit, req[w].user_id) = {}
        /\ DOMAIN users # {}
        /\ user_audit # <<>>

\* C17: a RESTORE request naming a version that the identity's history does not
\* hold (an identity without history included) is answered NotFound by its first
\* statement: nothing was read further or written, and the step leaves the
\* Entity Store and the Audit Log as they were
C17_RestoreVersionNotFound ==
    [][\A w \in Workers :
          (/\ req[w].op = "restore_user_version"
           /\ pc[w] # "done" /\ pc'[w] = "done" /\ ~resp'[w].fault
           /\ \A r \in AuditOf(user_audit, req[w].user_id) : r.version # req[w].version)
          => /\ pc[w] = "r_select_version"
             /\ resp'[w].status = 404
             /\ resp'[w].code = "NOT_FOUND"
             /\ users' = users
             /\ user_audit' = user_audit
             /\ tx[w] = NoTx /\ tx'[w] = NoTx]_vars

\* a restore to a version beyond the identity's history was answered NotFound
C17_Witness ==
    \E w \in Workers :
        /\ Done(w, "restore_user_version")
        /\ resp[w].status = 404
        /\ AuditOf(user_audit, req[w].user_id) # {}
        /\ req[w].version > latest_version(user_audit, req[w].user_id)

\* C18: the commit of a successful CREATE appends exactly one audit row, for an
\* identity that had no row before: version 1, action CREATE, the created name and
\* contact, no acting subject; the commit of every other mutation appends a row
\* that carries the subject of its request, and only CREATE rows have no subject
C18_CreateAuditRecord ==
    [][/\ \A w \in Workers :
             Committed(w) =>
                 IF req[w].op = "create_user"
                 THEN /\ AuditOf(user_audit, loc[w].new_id) = {}
                      /\ users'[loc[w].new_id].name = req[w].name
                      /\ users'[loc[w].new_id].email = req[w].email
                      /\ user_audit' = Append(user_audit,
                            [user_id |-> loc[w].new_id, version |-> 1, name |-> req[w].name,
                             email |-> req[w].email, action |-> "CREATE", changed_by |-> NULL])
                 ELSE /\ Len(user_audit') = Len(user_audit) + 1
                      /\ user_audit'[Len(user_audit')].action # "CREATE"
                      /\ user_audit'[Len(user_audit')].changed_by = req[w].sub
                      /\ req[w].sub \in Subs
       /\ \A i \in 1..Len(user_audit') :
             user_audit'[i].changed_by = NULL <=> user_audit'[i].action = "CREATE"]_vars

\* a CREATE has been answered 200 while the log also holds the row of an
\* authenticated mutation of another identity
C18_Witness ==
    \E w \in Workers :
        /\ Done(w, "create_user")
        /\ resp[w].status = 200
        /\ \E r \in AuditOf(user_audit, loc[w].new_id) : r.action = "CREATE" /\ r.changed_by = NULL
        /\ \E i \in 1..Len(user_audit) :
              /\ user_audit[i].user_id # loc[w].new_id
              /\ user_audit[i].action \in {"UPDATE", "RESTORE"}
              /\ user_audit[i].changed_by \in Subs

\* C19: with requests served one at a time, the Entity Store agrees with the
\* newest audit row of every identity that has history: the identity has no
\* entity row exactly when that row's action is DELETE, and otherwise its entity
\* row carries that row's name and contact
C19_StoreAgreesWithNewest ==
    \A id \in Ids :
        \A r \in AuditOf(user_audit, id) :
            r.version = latest_version(user_audit, id) =>
                /\ id \notin DOMAIN users <=> r.action = "DELETE"
                /\ id \in DOMAIN users =>
                      /\ users[id].name = r.name
                      /\ users[id].email = r.email

\* an identity was created, updated to another name and contact, and restored
\* to version 1
C19_Witness ==
    \E id \in DOMAIN users :
        \E r1, r2, r3 \in AuditOf(user_audit, id) :
            /\ r1.version = 1 /\ r2.version = 2 /\ r3.version = 3
            /\ r2.action = "UPDATE" /\ r2.name # r1.name /\ r2.email # r1.email
            /\ r3.action = "RESTORE"
            /\ users[id].name = r1.name /\ users[id].email = r1.email
            /\ \A w \in Workers : pc[w] = "idle"

\* C20: the identity a CREATE has been assigned has no audit row before that
\* CREATE commits, so the history of every identity that has one holds exactly
\* one CREATE row, and that row is its one row of version 1
C20_OneCreatePerIdentity ==
    /\ \A w \in Workers :
          (req[w].op = "create_user" /\ pc[w] \in {"c_audit", "commit"})
          => AuditOf(user_audit, loc[w].new_id) = {}
    /\ \A id \in Ids :
          PositionsOf(user_audit, id) # {} =>
              /\ Cardinality({i \in PositionsOf(user_audit, id) :
                                 user_audit[i].action = "CREATE"}) = 1
              /\ Cardinality({i \in PositionsOf(user_audit, id) :
                                 user_audit[i].version = 1}) = 1
              /\ \A i \in PositionsOf(user_audit, id) :
                    user_audit[i].action = "CREATE" <=> user_audit[i].version = 1

\* the sequence has handed out two identities, both have history, and one of
\* them has been restored after the other was created
C20_Witness ==
    /\ users_id_seq = 2
    /\ \A id \in Ids : AuditOf(user_audit, id) # {}
    /\ Len(user_audit) = 3
    /\ user_audit[3].action = "RESTORE"

\* the contact an UPDATE or RESTORE request is about to write into its entity
NewContact(w) ==
    IF req[w].op = "update_user" THEN req[w].email ELSE loc[w].user.email

\* C21: when the UPDATE statement of an UPDATE or RESTORE request on entity A
\* would write a contact that a different live entity B holds, the request ends
\* there with an error and with nothing pending: both entities and the whole
\* Audit Log are as they were
C21_ContactConflict ==
    [][\A w \in Workers :
          (/\ pc[w] \in {"u_update", "r_update"}
           /\ pc'[w] # pc[w]
           /\ req[w].user_id \in DOMAIN users
           /\ \E B \in DOMAIN users :
                 B # req[w].user_id /\ users[B].email = NewContact(w))
          => /\ pc'[w] = "done"
             /\ resp'[w].status >= 400
             /\ users' = users
             /\ user_audit' = user_audit
             /\ tx'[w] = NoTx]_vars

\* a restore of entity A to a version whose contact entity B has taken over in
\* the meantime was answered with an error, and A still has the contact its
\* newest record shows
C21_Witness ==
    \E w \in Workers :
        /\ Done(w, "restore_user_version")
        /\ resp[w].status = 500
        /\ resp[w].code = "DATABASE_ERROR"
        /\ \E B \in DOMAIN users :
              /\ B # req[w].user_id
              /\ users[B].email = loc[w].user.email
        /\ \E r \in AuditOf(user_audit, req[w].user_id) :
              /\ r.version = latest_version(user_audit, req[w].user_id)
              /\ r.action = "UPDATE"
              /\ users[req[w].user_id].email = r.email

\* the audit rows of one identity, in the order of the table
HistoryOf(table, id) == SelectSeq(table, LAMBDA r : r.user_id = id)

\* C22: no step of an UPDATE, DELETE or RESTORE request on identity A, whether
\* the request succeeds or fails, changes the entity row or an audit record of
\* another identity B, and the request never has a write on B pending
C22_FrameOtherIdentities ==
    [][\A w \in Workers :
          (/\ req[w].op \in {"update_user", "delete_user", "restore_user_version"}
           /\ pc'[w] # pc[w])
          => /\ \A B \in Ids \ {req[w].user_id} :
                   /\ B \in DOMAIN users' <=> B \in DOMAIN users
                   /\ B \in DOMAIN users => users'[B] = users[B]
                   /\ HistoryOf(user_audit', B) = HistoryOf(user_audit, B)
             /\ Written(w)' \subseteq {req[w].user_id}
             /\ \A i \in 1..Len(tx'[w].audit) :
                   tx'[w].audit[i].user_id = req[w].user_id]_vars

\* an UPDATE of entity A has been answered 200 and a DELETE of A has failed
\* before, while another entity B is live with its history
C22_Witness ==
    \E w \in Workers :
        /\ Done(w, "update_user")
        /\ resp[w].status = 200
        /\ req[w].user_id \in delete_served
        /\ \E B \in DOMAIN users :
              /\ B # req[w].user_id
              /\ AuditOf(user_audit, B) # {}
====
